---- MODULE Spec2Model ----
(***************************************************************************)
(* BioSimSpace.Align: matchAtoms, rmsdAlign, merge and _score_rmsd         *)
(* (src/python/BioSimSpace/Align/_align.py) as a state machine.            *)
(*                                                                         *)
(* One API call runs at a time.  A call is cut into steps at its external  *)
(* calls (temporary directory and RDKit, Sire's findMCSmatches, align,     *)
(* getRMSD, Molecule._merge); what an external call answers is drawn from  *)
(* a bounded set in the step that makes it.  `stack` holds the calls in    *)
(* progress, outermost first, each with its position; `log` is the history *)
(* of external calls made by the running API call.                        *)
(***************************************************************************)
EXTENDS Integers, Sequences, FiniteSets, TLC

\* ------------------------------------------------------------------ bounds
\* molecule0 has MaxAtoms atoms, molecule1 one more.
MaxAtoms == 2
\* The most mappings one substructure search answers with.
MaxCands == 2
\* getRMSD answers with a score in 0..MaxScore.
MaxScore == 1
\* The caller asks for matches in -1..MaxMatches.
MaxMatches == 2
\* The most key:value pairs of a dictionary the caller passes.
MaxPairs == 2
\* The largest net charge passed, in units of e.
MaxCharge == 2
\* The file bases saveMolecules is called with.
MaxBases == 2

Min(a, b) == IF a <= b THEN a ELSE b

\* ------------------------------------------------------------- molecules
nAtoms0 == MaxAtoms
nAtoms1 == MaxAtoms + 1

\* --------------------------------------------------------------- strings
\* A str is the sequence of its characters.
\* str.upper() on the characters the inputs are written in.
UpperChar(c) ==
    CASE c = "r" -> "R" [] c = "m" -> "M" [] c = "s" -> "S" [] c = "d" -> "D"
      [] c = "a" -> "A" [] c = "l" -> "L" [] c = "i" -> "I" [] c = "g" -> "G"
      [] c = "n" -> "N"
      [] OTHER -> c

Upper(s) == [i \in 1..Len(s) |-> UpperChar(s[i])]

\* str.replace(" ", ""): drops the space character and nothing else.
IsNotSpace(c) == c # " "
StripSpaces(s) == SelectSeq(s, IsNotSpace)

\* scoring_function.replace(" ", "") without the upper().
NormaliseScoringNoUpper(s) == StripSpaces(s)

\* scoring_function.replace(" ", "").upper()
NormaliseScoring(s) == Upper(StripSpaces(s))

RMSD == <<"R", "M", "S", "D">>
RMSDALIGN == <<"R", "M", "S", "D", "A", "L", "I", "G", "N">>
scoring_functions == <<RMSD, RMSDALIGN>>

InList(x, list) == \E i \in 1..Len(list) : list[i] = x

\* The strings a caller passes as scoring_function.
ScoringInputs ==
    { <<"R", "M", "S", "D">>,
      <<" ", "r", "m", " ", "s", "d", " ">>,
      <<"R", "M", "S", "D", " ", "a", "l", "i", "g", "n">>,
      <<"r", "m", "s", "d", "A", "L", "I", "G", "N">>,
      <<"R", "M", "S">>,
      <<"R", "M", "S", "D", "_", "a", "l", "i", "g", "n">>,
      <<"r", "m", "s", "d", "\t", "a", "l", "i", "g", "n">>,
      <<"R", "M", "S", "D", "A", "L", "I", "G", "N", "S">>,
      << >> }

\* --------------------------------------------------------------- mappings
\* A dict of AtomIdx to AtomIdx is the set of its <<key, value>> pairs.
\* An optional value (None or x) is << >> or <<x>>.
None == << >>
Some(x) == <<x>>

\* What a caller puts into a dictionary: AtomIdx(v), v at and around the
\* ends of the two index ranges, or an object of another type.
IdxValues == {0 - 1, 0, nAtoms0 - 1, nAtoms0, nAtoms1}
AtomIdx(v) == <<"AtomIdx", v>>
NotAnIdx == <<"int", 0>>
DictObjects == {AtomIdx(v) : v \in IdxValues} \cup {NotAnIdx}

IsAtomIdx(o) == o[1] = "AtomIdx"
value(o) == o[2]

\* A caller's dictionary in iteration order: pairs with distinct keys.
DistinctKeys(d) == \A i, j \in 1..Len(d) : i # j => d[i][1] # d[j][1]

DictsOfLen(n) ==
    { d \in [1..n -> DictObjects \X DictObjects] : DistinctKeys(d) }

\* The dictionary as the mapping the external routines receive.
AsMapping(d) == { <<value(d[i][1]), value(d[i][2])>> : i \in 1..Len(d) }

\* The loop over the items of a caller's dictionary (the same in matchAtoms,
\* rmsdAlign and merge): the first pair that fails a check raises, the type
\* check of a pair before its range check.  "" when every pair passes.
PairErrorKeyOffByOne(p) ==
    IF ~IsAtomIdx(p[1]) \/ ~IsAtomIdx(p[2]) THEN "TypeError"
    ELSE IF \/ value(p[1]) < 0 \/ value(p[1]) > nAtoms0
            \/ value(p[2]) < 0 \/ value(p[2]) >= nAtoms1 THEN "ValueError"
    ELSE ""

PairError(p) ==
    IF ~IsAtomIdx(p[1]) \/ ~IsAtomIdx(p[2]) THEN "TypeError"
    ELSE IF \/ value(p[1]) < 0 \/ value(p[1]) >= nAtoms0
            \/ value(p[2]) < 0 \/ value(p[2]) >= nAtoms1 THEN "ValueError"
    ELSE ""

RECURSIVE DictErrorFrom(_, _)
DictErrorFrom(d, i) ==
    IF i > Len(d) THEN ""
    ELSE IF PairError(d[i]) # "" THEN PairError(d[i])
    ELSE DictErrorFrom(d, i + 1)

DictError(d) == DictErrorFrom(d, 1)

\* ------------------------------------------------------ external answers
\* A mapping of k atom pairs that findMCSmatches may answer with: atom i of
\* molecule0 on atom (i + r) mod nAtoms1 of molecule1.
Rot(k, r) == { <<i, (i + r) % nAtoms1>> : i \in 0..(k - 1) }

\* What one findMCSmatches call answers: no mapping, or c distinct mappings
\* of k pairs each, the first of them Rot(k, r).
Candidates(k, c, r) == [j \in 1..c |-> Rot(k, r + j - 1)]

SearchAnswers(rs) ==
    { << >> } \cup
    { Candidates(k, c, r) : k \in 1..nAtoms0,
                            c \in 1..Min(MaxCands, nAtoms1),
                            r \in rs }

\* The strict search (match width 6) and the widened one (width 0): the
\* widened search may answer as the strict one does, or differently.
StrictAnswers == SearchAnswers({0})
WidenedAnswers == SearchAnswers({0, 1})

\* What the RDKit derivation of a prematch ends with: the step that raised
\* (swallowed by the bare except), or "ok" and the prematch of line 251.
DeriveSteps == <<"saveMolecules", "MolFromPDBFile", "FindMCS", "GetSubstructMatch">>
DerivedPrematches == { Rot(k, 0) : k \in 0..nAtoms0 }

Scores == 0..MaxScore

\* ================================================== BioSimSpace.Parameters
\* str.lower() on the characters the names are written in.
LowerChar(c) ==
    CASE c = "S" -> "s" [] c = "B" -> "b" [] c = "F" -> "f" [] c = "G" -> "g"
      [] c = "A" -> "a" [] c = "O" -> "o" [] c = "P" -> "p"
      [] OTHER -> c

Lower(s) == [i \in 1..Len(s) |-> LowerChar(s[i])]

\* forcefield.replace(" ", "") without the lower().
NormaliseForcefieldNoLower(s) == StripSpaces(s)

\* Line 80: forcefield.replace(" ", "").lower()
NormaliseForcefield(s) == Lower(StripSpaces(s))

\* str.replace(old, new) for single characters.
Replace(s, old, new) == [i \in 1..Len(s) |-> IF s[i] = old THEN new ELSE s[i]]

\* dir() at line 469, in its sorted order: the names bound in the module by
\* then (of the imported, underscore-prefixed ones, a few).  forceFields and
\* openForceFields are defined further down.
ModuleDir ==
    << <<"_", "C", "h", "a", "r", "g", "e">>,
       <<"_", "M", "o", "l", "e", "c", "u", "l", "e">>,
       <<"_", "P", "r", "o", "c", "e", "s", "s">>,
       <<"_", "P", "r", "o", "t", "o", "c", "o", "l">>,
       <<"_", "a", "m", "b", "e", "r", "_", "h", "o", "m", "e">>,
       <<"f", "f", "0", "3">>,
       <<"f", "f", "1", "4", "S", "B">>,
       <<"f", "f", "9", "9">>,
       <<"f", "f", "9", "9", "S", "B">>,
       <<"f", "f", "9", "9", "S", "B", "i", "l", "d", "n">>,
       <<"g", "a", "f", "f">>,
       <<"g", "a", "f", "f", "2">>,
       <<"p", "a", "r", "a", "m", "e", "t", "e", "r", "i", "s", "e">> >>

\* The force-field functions of lines 87-429.
Builtin(name) == [kind |-> "builtin", name |-> name]
\* The function _make_function(name) returns: lines 482-485.
Synthesized(name) == [kind |-> "openff", name |-> name]

\* Every public name taken for a force field.
IsForceFieldVarAnyPublic(var) == var[1] # "_"

\* Line 470: the names the first loop takes for force fields.
IsForceFieldVar(var) == var[1] # "_" /\ var[1] \notin {"p", "P"}

\* The three registry structures, and the functions bound to the module's
\* namespace by setattr (line 513).
EmptyRegistry ==
    [forcefields |-> << >>, forcefields_lower |-> << >>, forcefield_dict |-> {},
     open_forcefields |-> << >>, namespace |-> {}]

\* dict[key] = v
DictSet(dict, key, v) == { e \in dict : e[1] # key } \cup {<<key, v>>}
DictHas(dict, key) == \E e \in dict : e[1] = key
DictGet(dict, key) == (CHOOSE e \in dict : e[1] = key)[2]

\* Lines 469-473 for the first n names of dir().
RECURSIVE RegisterOwn(_)
RegisterOwn(n) ==
    IF n = 0 THEN EmptyRegistry
    ELSE LET r == RegisterOwn(n - 1)
             var == ModuleDir[n]
         IN  IF IsForceFieldVar(var)
             THEN [r EXCEPT !.forcefields = Append(@, var),
                            !.forcefields_lower = Append(@, Lower(var)),
                            !.forcefield_dict = DictSet(@, Lower(var), Builtin(var))]
             ELSE r

\* Lines 498-520 for the first n discovered definition files, given by their
\* base names without the extension.
RECURSIVE RegisterOpenff(_, _)
RegisterOpenff(found, n) ==
    IF n = 0 THEN RegisterOwn(Len(ModuleDir))
    ELSE LET r == RegisterOpenff(found, n - 1)
             ff == found[n]
             func_name == Replace(Replace(ff, "-", "_"), ".", "_")
             namespace == DictSet(r.namespace, func_name, Synthesized(func_name))
         IN  [r EXCEPT !.forcefields = Append(@, ff),
                       !.open_forcefields = Append(@, ff),
                       !.namespace = namespace,
                       !.forcefields_lower = Append(@, Lower(ff)),
                       !.forcefield_dict = DictSet(@, Lower(ff), DictGet(namespace, func_name))]

\* The module after import: lines 464-524.
Registry(found) == RegisterOpenff(found, Len(found))

\* Line 535.
forceFields(r) == r.forcefields
\* Line 547.
openForceFields(r) == r.open_forcefields

\* The definition files an openforcefields installation can hold.
OpenffFiles ==
    { <<"o", "p", "e", "n", "f", "f", "-", "1", ".", "0", ".", "0">>,
      <<"s", "m", "i", "r", "n", "o", "f", "f", "9", "9", "F", "r", "o", "s", "s", "t", "-", "1", ".", "1", ".", "0">> }

\* ------------------------------------------------------------ net_charge
\* A number with a fractional part is held in halves: <<"float", 5>> is 2.5.
Halves == (0 - 2 * MaxCharge - 1)..(2 * MaxCharge + 1)

\* What a caller passes for net_charge: None, an int, a float, a float that
\* is nan, a Charge (its magnitude a float), a number of another type
\* (decimal.Decimal, numpy.float64), a str of digits, another str, an
\* object that int() does not take.
NetCharges ==
    {<<"None", 0>>, <<"nan", 0>>, <<"str", 0>>, <<"object", 0>>}
    \cup { <<"int", n>> : n \in (0 - MaxCharge)..MaxCharge }
    \cup { <<"digits", n>> : n \in 0..MaxCharge }
    \cup { <<k, h>> : k \in {"float", "Charge", "Decimal"}, h \in Halves }

\* Line 345: Charge.magnitude(), a float.
Magnitude(x) == IF x[1] = "Charge" THEN <<"float", x[2]>> ELSE x

\* type(net_charge) is float
IsFloat(x) == x[1] \in {"float", "nan"}

\* net_charge % 1 != 0 for a float.
HasFraction(x) == x[1] = "nan" \/ x[2] % 2 # 0

\* int(x), which truncates towards zero; None where it raises.
IntOf(x) ==
    CASE x[1] \in {"int", "digits"} -> Some(x[2])
      [] x[1] \in {"float", "Decimal"} ->
            Some(IF x[2] >= 0 THEN x[2] \div 2 ELSE 0 - ((0 - x[2]) \div 2))
      [] OTHER -> None

Coerced(exc, net_charge) == [exc |-> exc, net_charge |-> net_charge]

\* Lines 342-355 of gaff and 403-419 of gaff2 (whose lines 418-419 test an
\* int, of which % 1 is 0).
CoerceNetCharge(x) ==
    IF x[1] = "None" THEN Coerced("", None)
    ELSE LET m == Magnitude(x) IN
         IF IsFloat(m) /\ HasFraction(m) THEN Coerced("ValueError", None)
         ELSE IF IntOf(m) = None THEN Coerced("TypeError", None)
         ELSE Coerced("", IntOf(m))

\* -------------------------------------------------------------- functions
OwnFunctions == {<<"f", "f", "9", "9">>,
                 <<"f", "f", "9", "9", "S", "B">>,
                 <<"f", "f", "9", "9", "S", "B", "i", "l", "d", "n">>,
                 <<"f", "f", "0", "3">>,
                 <<"f", "f", "1", "4", "S", "B">>,
                 <<"g", "a", "f", "f">>,
                 <<"g", "a", "f", "f", "2">>}
TakesNetCharge == {<<"g", "a", "f", "f">>, <<"g", "a", "f", "f", "2">>}
WithAmberOrGromacs == {<<"f", "f", "9", "9">>,
                       <<"f", "f", "9", "9", "S", "B">>,
                       <<"f", "f", "9", "9", "S", "B", "i", "l", "d", "n">>,
                       <<"f", "f", "0", "3">>}

\* _Protocol.FF99 ... _Protocol.GAFF2: the class a function builds.
ProtocolOf(name) ==
    CASE name = <<"f", "f", "9", "9">> -> "FF99" [] name = <<"f", "f", "9", "9", "S", "B">> -> "FF99SB"
      [] name = <<"f", "f", "9", "9", "S", "B", "i", "l", "d", "n">> -> "FF99SBILDN" [] name = <<"f", "f", "0", "3">> -> "FF03"
      [] name = <<"f", "f", "1", "4", "S", "B">> -> "FF14SB" [] name = <<"g", "a", "f", "f">> -> "GAFF"
      [] name = <<"g", "a", "f", "f", "2">> -> "GAFF2"

\* The tool-chain of ff14SB, gaff and gaff2 taken for that of ff99.
ToolchainMissingAmberOrGromacs(name, env) ==
    ~env.amber_home /\ (~env.gmx_exe \/ ~env.gromacs_path)

\* Lines 111, 155, 199, 243 (AMBER or GROMACS) and 287, 333, 394 (AMBER).
ToolchainMissing(name, env) ==
    IF name \in WithAmberOrGromacs
    THEN ~env.amber_home /\ (~env.gmx_exe \/ ~env.gromacs_path)
    ELSE ~env.amber_home

\* What a call ends with.  kind: "" (running), "raise", "handle" (the
\* Process), "None".  lists: the names an error message enumerates.
PaOutcome(kind, exc, lists) == [kind |-> kind, exc |-> exc, lists |-> lists]

\* The effect of a function body: the outcome, the protocol built (None
\* for none), whether a Process was created and started.
Effect(outcome, protocol, started) ==
    [outcome |-> outcome, protocol |-> protocol, started |-> started]
Raises(exc) == Effect(PaOutcome("raise", exc, << >>), None, FALSE)

\* The body of ff99 ... gaff2 (lines 111-129, ..., 394-429), in its order:
\* tool-chain, molecule, net_charge (gaff, gaff2), property_map, protocol,
\* Process(..., auto_start=True).
OwnFunction(name, env, args) ==
    IF ToolchainMissing(name, env) THEN Raises("MissingSoftwareError")
    ELSE IF ~args.molecule THEN Raises("TypeError")
    ELSE LET c == IF name \in TakesNetCharge
                  THEN CoerceNetCharge(args.net_charge)
                  ELSE Coerced("", None)
         IN  IF c.exc # "" THEN Raises(c.exc)
             ELSE IF ~args.property_map THEN Raises("TypeError")
             ELSE Effect(PaOutcome("handle", "", << >>),
                         Some([class |-> ProtocolOf(name), net_charge |-> c.net_charge]),
                         TRUE)

\* Lines 483-484 and 460: the generated function calls _parameterise_openff,
\* which prints the name; neither returns a value.
OpenffFunction(name, env, args) == Effect(PaOutcome("None", "", << >>), None, FALSE)

Invoke(f, env, args) ==
    IF f.kind = "builtin" THEN OwnFunction(f.name, env, args)
    ELSE OpenffFunction(f.name, env, args)

\* The strings passed for forcefield.
ForcefieldInputs ==
    { <<"g", "a", "f", "f">>,
      <<"G", "A", "F", "F">>,
      <<" ", "g", " ", "a", " ", "f", " ", "f", " ">>,
      <<"g", "a", "f", "f", "2">>,
      <<"f", "f", "1", "4", "S", "B">>,
      <<"f", "f", "1", "4", "s", "b">>,
      <<"F", "F", "9", "9", "S", "B">>,
      <<"f", "f", " ", "9", "9", " ", "S", "B", "i", "l", "d", "n">>,
      <<"f", "f", "0", "3">>,
      <<"f", "f", "9", "9">>,
      <<"f", "f", "9", "9", "S", "B">>,
      <<"f", "f", "9", "9", "S", "B", "i", "l", "d", "n">>,
      <<"o", "p", "e", "n", "f", "f", "-", "1", ".", "0", ".", "0">>,
      <<"O", "p", "e", "n", "F", "F", "-", "1", ".", "0", ".", "0">>,
      <<"o", "p", "e", "n", "f", "f", "_", "1", "_", "0", "_", "0">>,
      <<"s", "m", "i", "r", "n", "o", "f", "f", "9", "9", "F", "r", "o", "s", "s", "t", "-", "1", ".", "1", ".", "0">>,
      <<"a", "m", "b", "e", "r">>,
      <<"g", "a", "f", "f", "\t">>,
      <<>> }

\* _amber_home, _gmx_exe, _gromacs_path: TRUE where the import found the
\* software, FALSE where it left None (line 39).
Envs == [amber_home : BOOLEAN, gmx_exe : BOOLEAN, gromacs_path : BOOLEAN]

\* What the glob of line 497 can list, in any order.
Found ==
    {<< >>} \cup { <<a>> : a \in OpenffFiles }
            \cup { p \in OpenffFiles \X OpenffFiles : p[1] # p[2] }

NoCall ==
    [forcefield |-> << >>, forcefield_is_str |-> TRUE, molecule |-> TRUE,
     property_map |-> TRUE, net_charge |-> <<"None", 0>>]

\* The module as imported, no call made: the environment, the registry,
\* and of a call the function called (fn), its arguments, the functions the
\* dispatch invoked, the protocol built, the state of the Process ("none",
\* "running", "finished", "failed"), and the result.
PaImported(env, found) ==
    [env |-> env, found |-> found, registry |-> Registry(found),
     fn |-> << >>, args |-> NoCall,
     invoked |-> << >>, protocol |-> None, process |-> "none",
     result |-> PaOutcome("", "", << >>)]

\* ------------------------------------------------- IO: the file cache
\* The system the caller holds, the formats it asks for, and the file
\* bases it writes to (tmp, tmp2, ...).
Systems == {"ala"}
FileFormats == {"pdb", "prm7"}
Filebases == 1..MaxBases

\* The lists of formats a call passes: one format, or both.
FormatLists == {<<"pdb">>, <<"prm7">>, <<"pdb", "prm7">>}

\* The file a call writes for one format: f"{filebase}.{format}".
Path(filebase, format) == <<filebase, format>>
Paths == Filebases \X FileFormats

\* What a path holds: no file, an empty (truncated) file, or the text of
\* a system in a format.
Absent == <<"no file">>
Truncated == <<"file">>
Render(system, format) == <<"file", system, format>>
Md5(content) == <<"md5", content>>

\* The key of the cache: the content of the system, and the format.
Key(system, format) == <<system, format>>

\* One entry of the cache: the file written for the key and its checksum.
Entry(key, file, md5) == [key |-> key, file |-> file, md5 |-> md5]
Lookup(cache, key) == { e \in cache : e.key = key }

\* The cached file is on disk and its checksum is the recorded one.
check_cache(cache, disk, key) ==
    { e \in Lookup(cache, key) :
        disk[e.file] # Absent /\ Md5(disk[e.file]) = e.md5 }

update_cacheKeepingOld(cache, key, file, content) ==
    cache \cup {Entry(key, file, Md5(content))}
\* The entry of the key becomes the file just written.
update_cache(cache, key, file, content) ==
    (cache \ Lookup(cache, key)) \cup {Entry(key, file, Md5(content))}

\* One format of a saveMolecules call: the cached file is copied to the
\* new path when it is still valid, else the system is written afresh
\* and the cache updated.  st: [cache, disk, reused].
SaveOne(st, filebase, system, format) ==
    LET key  == Key(system, format)
        path == Path(filebase, format)
        hit  == check_cache(st.cache, st.disk, key)
    IN  IF hit # {}
        THEN LET e == CHOOSE e \in hit : TRUE
             IN  [cache  |-> st.cache,
                  disk   |-> [st.disk EXCEPT ![path] = st.disk[e.file]],
                  reused |-> st.reused \cup {format}]
        ELSE [cache  |-> update_cache(st.cache, key, path, Render(system, format)),
              disk   |-> [st.disk EXCEPT ![path] = Render(system, format)],
              reused |-> st.reused]

\* saveMolecules(filebase, system, fileformat): every format in turn.
RECURSIVE saveMolecules(_, _, _, _)
saveMolecules(st, filebase, system, formats) ==
    IF formats = << >> THEN st
    ELSE saveMolecules(SaveOne(st, filebase, system, Head(formats)),
                       filebase, system, Tail(formats))

\* The call the cache last served; op "" before the first and after a
\* file is removed or truncated behind its back.
NoSave == [op |-> "", filebase |-> 0, system |-> "", formats |-> << >>, reused |-> {}]

\* BioSimSpace.IO._file_cache._cache = {} and an empty directory.
FcIdle == [cache |-> {}, disk |-> [p \in Paths |-> Absent], last |-> NoSave]

\* ------------------------------------------------------------------ state
VARIABLES
    api,      \* the API function the caller invoked; "" before the first call
    stack,    \* calls in progress, outermost first: [fn, pc]
    ma,       \* locals of the matchAtoms (and its _score_rmsd) call in progress
    ra,       \* locals of the rmsdAlign call in progress
    mg,       \* locals of the merge call in progress
    log,      \* external calls made since the API call began, in order
    given,    \* the arguments of the API call, as far as the call read them
    result,   \* what the API call returned or raised; kind "" while it runs
    heap,     \* the molecule objects: the caller's two and those a fit created
    tmp_dir,  \* the TemporaryDirectory of matchAtoms: "none", "exists", "removed"
    pa,       \* BioSimSpace.Parameters: its environment and the call in progress
    fc        \* BioSimSpace.IO: the file cache and the files on disk

alignVars == <<api, stack, ma, ra, mg, log, given, result, heap, tmp_dir>>
vars == <<api, stack, ma, ra, mg, log, given, result, heap, tmp_dir, pa, fc>>

\* What a call ends with.  kind: "" (running), "raise", "None", "mapping",
\* "list", "pair", "molecule", "merged".  exc and arg: the exception and the
\* argument it is about.  lists: the names its message enumerates.  names:
\* the value its message formats with %r (None, or a mapping).  mappings and
\* scores: the returned mappings and scores.
Outcome(kind, exc, arg, lists, names, mappings, scores) ==
    [kind |-> kind, exc |-> exc, arg |-> arg, lists |-> lists, names |-> names,
     mappings |-> mappings, scores |-> scores]

Running == Outcome("", "", "", << >>, << >>, << >>, << >>)
Raised(exc, arg) == Outcome("raise", exc, arg, << >>, << >>, << >>, << >>)

\* The exception of lines 391 and 531: its message formats the mapping.
AlignmentErrorOn(mapping) ==
    Outcome("raise", "AlignmentError", "", << >>, mapping, << >>, << >>)

\* The arguments as the caller gave them, where the call's locals do not
\* keep them: the scoring_function string (line 165 overwrites it with its
\* normalised form) and the dictionary (prematch or mapping) in iteration
\* order, until nothing reads it any more.
\* passed: the optional arguments the caller passed a value other than None
\* for.
NoArgs == [scoring_function |-> << >>, dict |-> << >>, passed |-> {}]

PaIdle == PaImported([amber_home |-> TRUE, gmx_exe |-> TRUE, gromacs_path |-> TRUE], << >>)

MaIdle ==
    [scoring_function |-> << >>, is_align |-> FALSE, matches |-> 0,
     return_scores |-> FALSE, prematch |-> {}, searched |-> << >>, searches |-> << >>,
     derived |-> "no", m0 |-> << >>, m1 |-> << >>, mappings |-> << >>,
     scores |-> << >>, moved |-> FALSE]
RaIdle == [mapping |-> None]
MgIdle == [mapping |-> None, allow_ring_breaking_is_bool |-> TRUE, aligned |-> FALSE]

\* The molecule objects.  coords[1] and coords[2] are the caller's molecule0
\* and molecule1; local0 is the object the name molecule0 is bound to inside
\* _score_rmsd; returned is the object rmsdAlign returned, 0 for none.
HeapInit == [coords |-> <<"molecule0", "molecule1">>, local0 |-> 1, returned |-> 0]

\* The fit overwriting the coordinates of the object it is given.
MovedInPlace(coords, ref) ==
    [coords |-> [coords EXCEPT ![ref] = "aligned"], ref |-> ref]

\* Lines 389 and 529: x.move().align(...).molecule() edits a copy of x and
\* commits it as a new molecule; x keeps its coordinates.
Moved(coords, ref) ==
    [coords |-> Append(coords, "aligned"), ref |-> Len(coords) + 1]

\* Line 226 binds the TemporaryDirectory to the local tmp_dir and nothing
\* calls its cleanup(): the directory is removed when the object is
\* finalised, which a return of matchAtoms brings about by dropping the last
\* reference to it.
Released(d) == IF d = "exists" THEN "removed" ELSE d

\* An external call: what is called, the function calling it, the match
\* width of a findMCSmatches call (0 for any other call), whether it raised.
Event(op, by, w, raised) == [op |-> op, by |-> by, w |-> w, raised |-> raised]

Frame(fn, pc) == [fn |-> fn, pc |-> pc]
Top == stack[Len(stack)]
At(fn, pc) == stack # << >> /\ Top = Frame(fn, pc)
\* No call has been made yet, or the last one was put behind (NextCall).
Idle == stack = << >> /\ api = ""
\* The API call has returned or raised.
Finished == stack = << >> /\ api # ""
Callers == SubSeq(stack, 1, Len(stack) - 1)

Init ==
    /\ api = ""
    /\ stack = << >>
    /\ ma = MaIdle
    /\ ra = RaIdle
    /\ mg = MgIdle
    /\ log = << >>
    /\ given = NoArgs
    /\ result = Running
    /\ heap = HeapInit
    /\ tmp_dir = "none"
    /\ pa = PaIdle
    /\ fc = FcIdle

\* An exception no frame catches: every call in progress ends.  The locals
\* stay as they were when it was raised.
Propagate(outcome) ==
    /\ stack' = << >>
    /\ result' = outcome

\* An API call that raises while it validates its arguments.
Reject(fn, outcome, args) ==
    /\ api' = fn
    /\ given' = args
    /\ log' = << >>
    /\ ma' = MaIdle
    /\ ra' = RaIdle
    /\ mg' = MgIdle
    /\ Propagate(outcome)

\* ------------------------------------------------------------ _score_rmsd
\* sorted(range(len(scores)), key=lambda k: scores[k]): a stable sort of the
\* positions by ascending score, as an insertion from the left.
\* An insertion that puts a position before those of equal score.
RECURSIVE InsertKeyBeforeEqual(_, _, _)
InsertKeyBeforeEqual(keys, k, scores) ==
    IF keys = << >> THEN <<k>>
    ELSE IF scores[keys[Len(keys)]] < scores[k] THEN Append(keys, k)
    ELSE Append(InsertKeyBeforeEqual(SubSeq(keys, 1, Len(keys) - 1), k, scores),
                keys[Len(keys)])

RECURSIVE InsertKey(_, _, _)
InsertKey(keys, k, scores) ==
    IF keys = << >> THEN <<k>>
    ELSE IF scores[keys[Len(keys)]] <= scores[k] THEN Append(keys, k)
    ELSE Append(InsertKey(SubSeq(keys, 1, Len(keys) - 1), k, scores), keys[Len(keys)])

RECURSIVE SortedKeysUpTo(_, _)
SortedKeysUpTo(scores, n) ==
    IF n = 0 THEN << >>
    ELSE InsertKey(SortedKeysUpTo(scores, n - 1), n, scores)

\* The positions left in input order.
SortedKeysUnsorted(scores) == [k \in 1..Len(scores) |-> k]

SortedKeys(scores) == SortedKeysUpTo(scores, Len(scores))

\* [seq[x] for x in keys]
Reorder(seq, keys) == [x \in 1..Len(keys) |-> seq[keys[x]]]

\* seq[0:n + 1]
SliceOneMore(seq, n) == SubSeq(seq, 1, Min(n + 1, Len(seq)))

\* seq[0:n] for n >= 0
Slice(seq, n) == SubSeq(seq, 1, Min(n, Len(seq)))

\* ------------------------------------------------------------- matchAtoms
\* Lines 269-279 with >= for > in line 272.
SelectMappingsOnTie(m0, m1) ==
    IF Len(m1) > 0
    THEN IF Len(m0) > 0
         THEN IF Cardinality(m1[1]) >= Cardinality(m0[1]) THEN m1 ELSE m0
         ELSE m1
    ELSE m0

\* Lines 269-279: which search's mappings are kept.
SelectMappings(m0, m1) ==
    IF Len(m1) > 0
    THEN IF Len(m0) > 0
         THEN IF Cardinality(m1[1]) > Cardinality(m0[1]) THEN m1 ELSE m0
         ELSE m1
    ELSE m0

\* Lines 288-299 on what _score_rmsd returned.
Returned(matches, return_scores, mappings, scores) ==
    IF matches = 1
    THEN Outcome("mapping", "", "", << >>, << >>, <<mappings[1]>>, << >>)
    ELSE IF return_scores
         THEN Outcome("pair", "", "", << >>, << >>,
                      Slice(mappings, matches), Slice(scores, matches))
         ELSE Outcome("list", "", "", << >>, << >>, Slice(mappings, matches), << >>)

\* The arguments whose type alone matchAtoms checks (lines 155-201), and the
\* three it also checks the value of.
MatchAtomsTyped ==
    {"molecule0", "molecule1", "scoring_function", "matches", "prematch",
     "timeout", "match_light", "property_map0", "property_map1", "verbose"}

\* The locals of matchAtoms after lines 150-214.
MaEntered(scoring_function, matches, return_scores, prematch) ==
    [MaIdle EXCEPT !.scoring_function = scoring_function,
                   !.is_align = (scoring_function = RMSDALIGN),
                   !.matches = matches,
                   !.return_scores = return_scores,
                   !.prematch = prematch]

\* Line 224: a prematch is derived only when none was passed.
MaFirstPc(prematch) == IF Cardinality(prematch) = 0 THEN "derive" ELSE "search"

\* matchAtoms called by the user: lines 150-214.  An argument is checked
\* after those before it passed; a call that raises has read no argument
\* behind the one it raises for.
MatchAtomsCall ==
    /\ Idle
    /\ \/ \E a \in MatchAtomsTyped : Reject("matchAtoms", Raised("TypeError", a), NoArgs)
       \/ \E s \in ScoringInputs :
            /\ ~InList(NormaliseScoring(s), scoring_functions)
            /\ Reject("matchAtoms",
                      Outcome("raise", "ValueError", "scoring_function",
                              scoring_functions, << >>, << >>, << >>),
                      [NoArgs EXCEPT !.scoring_function = s])
       \/ \E m \in (0 - 1)..MaxMatches :
            /\ m < 0
            /\ Reject("matchAtoms", Raised("ValueError", "matches"), NoArgs)
       \/ \E n \in 0..MaxPairs : \E d \in DictsOfLen(n) :
            /\ DictError(d) # ""
            /\ Reject("matchAtoms", Raised(DictError(d), "prematch"),
                      [NoArgs EXCEPT !.dict = d])
       \/ \E n \in 0..MaxPairs : \E d \in DictsOfLen(n) :
            /\ DictError(d) = ""
            /\ \E s \in ScoringInputs, m \in (0 - 1)..MaxMatches, rs \in BOOLEAN :
                 /\ InList(NormaliseScoring(s), scoring_functions)
                 /\ m >= 0
                 /\ api' = "matchAtoms"
                 /\ given' = [NoArgs EXCEPT !.scoring_function = s, !.dict = d]
                 /\ log' = << >>
                 /\ result' = Running
                 /\ ma' = MaEntered(NormaliseScoring(s), m, rs, AsMapping(d))
                 /\ ra' = RaIdle
                 /\ mg' = MgIdle
                 /\ stack' = <<Frame("matchAtoms", MaFirstPc(AsMapping(d)))>>
    /\ UNCHANGED <<heap, tmp_dir, pa, fc>>

\* A call returns: to the user, or to its caller.  rmsdAlign and merge
\* assign what matchAtoms returns to `mapping` (lines 380, 482), and merge
\* assigns what rmsdAlign returns to `molecule0` (line 483).
ReturnTo(outcome, v) ==
    IF Len(stack) = 1
    THEN /\ stack' = << >>
         /\ result' = outcome
         /\ UNCHANGED <<ra, mg>>
    ELSE /\ stack' = Callers
         /\ UNCHANGED result
         /\ IF stack[Len(stack) - 1].fn = "rmsdAlign"
            THEN /\ ra' = [ra EXCEPT !.mapping = v]
                 /\ UNCHANGED mg
            ELSE IF Top.fn = "matchAtoms"
            THEN /\ mg' = [mg EXCEPT !.mapping = v]
                 /\ UNCHANGED ra
            ELSE /\ mg' = [mg EXCEPT !.aligned = TRUE]
                 /\ UNCHANGED ra

\* What a step of the derivation raises: an Exception, or a BaseException
\* that is none (KeyboardInterrupt, SystemExit).
DeriveRaises == {"Exception", "BaseException"}

\* An `except Exception:` in place of the bare except.
CaughtIfException(e) == e = "Exception"

\* Lines 253-255: the bare except catches whatever was raised.
Caught(e) == TRUE

DeriveLog(f, raised) ==
    <<Event("TemporaryDirectory", "matchAtoms", 0, FALSE)>>
    \o [i \in 1..f |-> Event(DeriveSteps[i], "matchAtoms", 0, raised /\ i = f)]

\* Lines 224-255: the RDKit prematch, inside try / bare except.  A step
\* that raises leaves `prematch` as it was: line 251 is not reached.
MaDerive ==
    /\ At("matchAtoms", "derive")
    /\ tmp_dir' = "exists"
    /\ UNCHANGED <<heap, pa, fc>>
    /\ \/ \E f \in 1..Len(DeriveSteps), e \in DeriveRaises :
            /\ log' = log \o DeriveLog(f, TRUE)
            /\ ma' = [ma EXCEPT !.derived = "raised"]
            /\ IF Caught(e)
               THEN /\ stack' = Append(Callers, Frame("matchAtoms", "search"))
                    /\ UNCHANGED result
               ELSE Propagate(Outcome("raise", e, "", << >>, << >>, << >>, << >>))
       \/ \E p \in DerivedPrematches :
            /\ log' = log \o DeriveLog(Len(DeriveSteps), FALSE)
            /\ ma' = [ma EXCEPT !.derived = "done", !.prematch = p]
            /\ stack' = Append(Callers, Frame("matchAtoms", "search"))
            /\ UNCHANGED result
    /\ UNCHANGED <<api, ra, mg, given>>

\* An empty list in place of None.
NoMatchEmptyList == Outcome("list", "", "", << >>, << >>, << >>, << >>)

\* Line 283.
NoMatch == Outcome("None", "", "", << >>, << >>, << >>, << >>)

\* A widened search that starts from no prematch.
SearchArgumentsWidenedFromScratch(prematch, width) ==
    [prematch |-> IF width = 0 THEN {} ELSE prematch,
     timeout |-> "timeout", match_light |-> "match_light",
     property_map0 |-> "property_map0", property_map1 |-> "property_map1",
     width |-> width]

\* Lines 259-267: what a findMCSmatches call is given: the matcher built on
\* `prematch`, the locals timeout, match_light, property_map0 and
\* property_map1 (none of them assigned between the two calls), and the
\* match width.
SearchArguments(prematch, width) ==
    [prematch |-> prematch,
     timeout |-> "timeout", match_light |-> "match_light",
     property_map0 |-> "property_map0", property_map1 |-> "property_map1",
     width |-> width]

\* Lines 257-283: the two searches, the choice between them, and the return
\* of None when neither found a mapping.
MaSearch ==
    /\ At("matchAtoms", "search")
    /\ \E a0 \in StrictAnswers, a1 \in WidenedAnswers :
         /\ log' = log \o <<Event("findMCSmatches", "matchAtoms", 6, FALSE),
                          Event("findMCSmatches", "matchAtoms", 0, FALSE)>>
         /\ ma' = [ma EXCEPT !.searched = <<ma.prematch, ma.prematch>>,
                             !.searches = <<SearchArguments(ma.prematch, 6),
                                            SearchArguments(ma.prematch, 0)>>,
                             !.m0 = a0,
                             !.m1 = a1,
                             !.mappings = SelectMappings(a0, a1)]
         /\ IF Len(SelectMappings(a0, a1)) = 0
            THEN /\ ReturnTo(NoMatch, None)
                 /\ tmp_dir' = Released(tmp_dir)
            ELSE /\ stack' = Append(Callers, Frame("matchAtoms", "score"))
                 /\ UNCHANGED <<ra, mg, result, tmp_dir>>
    /\ UNCHANGED <<api, given, heap, pa, fc>>

\* The locals of matchAtoms that nothing reads after line 279.
MaScoring(m) ==
    [m EXCEPT !.prematch = {}, !.searched = << >>, !.searches = << >>,
              !.m0 = << >>, !.m1 = << >>]

\* An error that does not carry the mapping.
ScoreFitRaisedUnnamed(mapping) == AlignmentErrorOn(None)

\* Line 531: the fit of a candidate raised.
ScoreFitRaised(mapping) == AlignmentErrorOn(Some(mapping))

\* Lines 524-548 for the next mapping and, after the last one, lines 550-560
\* and the return of matchAtoms (lines 288-299).
MaScore ==
    /\ At("matchAtoms", "score")
    /\ given' = [given EXCEPT !.dict = << >>]
    /\ LET mapping == ma.mappings[Len(ma.scores) + 1] IN
       \/ /\ ma.is_align
          /\ log' = Append(log, Event("align", "_score_rmsd", 0, TRUE))
          /\ ma' = MaScoring(ma)
          /\ Propagate(ScoreFitRaised(mapping))
          /\ UNCHANGED <<ra, mg, heap, tmp_dir>>
       \/ \E s \in Scores :
            LET scores == Append(ma.scores, s)
                keys == SortedKeys(scores)
                sorted == [MaScoring(ma) EXCEPT !.moved = ma.is_align,
                                                !.mappings = Reorder(ma.mappings, keys),
                                                !.scores = Reorder(scores, keys)]
                fit == Moved(heap.coords, heap.local0)
            IN
            /\ heap' = IF ma.is_align
                       THEN [heap EXCEPT !.coords = fit.coords, !.local0 = fit.ref]
                       ELSE heap
            /\ log' = log \o (IF ma.is_align
                               THEN <<Event("align", "_score_rmsd", 0, FALSE)>>
                               ELSE << >>)
                          \o <<Event("getRMSD", "_score_rmsd", 0, FALSE)>>
            /\ IF Len(scores) < Len(ma.mappings)
               THEN /\ ma' = [MaScoring(ma) EXCEPT !.moved = ma.is_align,
                                                   !.scores = scores]
                    /\ UNCHANGED <<stack, ra, mg, result, tmp_dir>>
               ELSE /\ ma' = sorted
                    /\ tmp_dir' = Released(tmp_dir)
                    /\ ReturnTo(Returned(ma.matches, ma.return_scores,
                                         sorted.mappings, sorted.scores),
                                IF ma.matches = 1 THEN Some(sorted.mappings[1]) ELSE None)
    /\ UNCHANGED <<api, pa, fc>>

\* The call matchAtoms(molecule0, molecule1, property_map0=..., property_map1=...)
\* that rmsdAlign and merge make: every other argument at its default
\* (line 49-57), all of which pass lines 150-214.
DefaultScoring == <<"R", "M", "S", "D", " ", "a", "l", "i", "g", "n">>
MaDefault == MaEntered(NormaliseScoring(DefaultScoring), 1, FALSE, {})

\* --------------------------------------------------------------- rmsdAlign
RmsdAlignTyped == {"molecule0", "molecule1", "property_map0", "property_map1", "mapping"}

\* rmsdAlign called by the user: lines 351-381.
RmsdAlignCall ==
    /\ Idle
    /\ \/ \E a \in RmsdAlignTyped : Reject("rmsdAlign", Raised("TypeError", a), NoArgs)
       \/ \E n \in 0..MaxPairs : \E d \in DictsOfLen(n) :
            /\ DictError(d) # ""
            /\ Reject("rmsdAlign", Raised(DictError(d), "mapping"),
                      [NoArgs EXCEPT !.dict = d])
       \/ \E n \in 0..MaxPairs : \E d \in DictsOfLen(n) :
            /\ DictError(d) = ""
            /\ ra' = [RaIdle EXCEPT !.mapping = Some(AsMapping(d))]
            /\ ma' = MaIdle
            /\ stack' = <<Frame("rmsdAlign", "align")>>
            /\ api' = "rmsdAlign"
            /\ given' = [NoArgs EXCEPT !.dict = d, !.passed = {"mapping"}]
            /\ log' = << >>
            /\ result' = Running
            /\ mg' = MgIdle
       \/ /\ ra' = RaIdle
          /\ ma' = MaDefault
          /\ stack' = <<Frame("rmsdAlign", "align"), Frame("matchAtoms", "derive")>>
          /\ api' = "rmsdAlign"
          /\ given' = NoArgs
          /\ log' = << >>
          /\ result' = Running
          /\ mg' = MgIdle
    /\ UNCHANGED <<heap, tmp_dir, pa, fc>>

\* The lower-level error let through.
FitRaisedLowLevel(mapping) ==
    Outcome("raise", "RuntimeError", "", << >>, << >>, << >>, << >>)

\* Line 391: the fit raised.
FitRaised(mapping) == AlignmentErrorOn(mapping)

\* Lines 383-394: the fit, inside try / bare except.  AtomResultMatcher
\* takes a dictionary: with None for a mapping the expression of line 389
\* raises.
RmsdAlignFit ==
    /\ At("rmsdAlign", "align")
    /\ \/ /\ log' = Append(log, Event("align", "rmsdAlign", 0, TRUE))
          /\ Propagate(FitRaised(ra.mapping))
          /\ UNCHANGED <<ra, mg, heap>>
       \/ /\ ra.mapping # None
          /\ log' = Append(log, Event("align", "rmsdAlign", 0, FALSE))
          /\ LET fit == Moved(heap.coords, 1) IN
             heap' = [heap EXCEPT !.coords = fit.coords, !.returned = fit.ref]
          /\ ReturnTo(Outcome("molecule", "", "", << >>, << >>, << >>, << >>), None)
    /\ UNCHANGED <<api, ma, given, tmp_dir, pa, fc>>

\* ------------------------------------------------------------------- merge
MergeTyped == {"molecule0", "molecule1", "property_map0", "property_map1", "mapping"}

\* The alignment done whether or not a mapping was passed.
MergeStackAlwaysAligns(mapping) == <<Frame("merge", "rmsdAlign")>>

\* Lines 465 and 479-483: with a mapping merge goes straight to line 486;
\* without one it calls matchAtoms, then rmsdAlign.
MergeStack(mapping) ==
    IF mapping # None
    THEN <<Frame("merge", "_merge")>>
    ELSE <<Frame("merge", "rmsdAlign"), Frame("matchAtoms", "derive")>>

\* merge called by the user: lines 452-482.  allow_ring_breaking is not
\* looked at: it is passed on to Molecule._merge (line 486).
MergeCall ==
    /\ Idle
    /\ \/ \E a \in MergeTyped : Reject("merge", Raised("TypeError", a), NoArgs)
       \/ \E n \in 0..MaxPairs : \E d \in DictsOfLen(n) :
            /\ DictError(d) # ""
            /\ Reject("merge", Raised(DictError(d), "mapping"),
                      [NoArgs EXCEPT !.dict = d])
       \/ \E n \in 0..MaxPairs : \E d \in DictsOfLen(n) : \E arb \in BOOLEAN :
            /\ DictError(d) = ""
            /\ mg' = [MgIdle EXCEPT !.mapping = Some(AsMapping(d)),
                                    !.allow_ring_breaking_is_bool = arb]
            /\ ma' = MaIdle
            /\ stack' = MergeStack(Some(AsMapping(d)))
            /\ api' = "merge"
            /\ given' = [NoArgs EXCEPT !.dict = d, !.passed = {"mapping"}]
            /\ log' = << >>
            /\ result' = Running
            /\ ra' = RaIdle
       \/ \E arb \in BOOLEAN :
            /\ mg' = [MgIdle EXCEPT !.allow_ring_breaking_is_bool = arb]
            /\ ma' = MaDefault
            /\ stack' = MergeStack(None)
            /\ api' = "merge"
            /\ given' = NoArgs
            /\ log' = << >>
            /\ result' = Running
            /\ ra' = RaIdle
    /\ UNCHANGED <<heap, tmp_dir, pa, fc>>

\* Every pair of a mapping that matchAtoms returned passes lines 369-376.
InRange(mapping) ==
    \A p \in mapping : /\ p[1] >= 0 /\ p[1] < nAtoms0
                       /\ p[2] >= 0 /\ p[2] < nAtoms1

\* Line 483: merge calls rmsdAlign(molecule0, molecule1, mapping) with what
\* matchAtoms returned; lines 351-381 of that call.  With None for a mapping
\* rmsdAlign calls matchAtoms itself (line 380).
MergeAlign ==
    /\ At("merge", "rmsdAlign")
    /\ IF mg.mapping = None
       THEN /\ ra' = RaIdle
            /\ ma' = MaDefault
            /\ stack' = <<Frame("merge", "_merge"), Frame("rmsdAlign", "align"),
                          Frame("matchAtoms", "derive")>>
            /\ UNCHANGED result
       ELSE IF InRange(mg.mapping[1])
       THEN /\ ra' = [RaIdle EXCEPT !.mapping = mg.mapping]
            /\ stack' = <<Frame("merge", "_merge"), Frame("rmsdAlign", "align")>>
            /\ UNCHANGED <<ma, result>>
       ELSE /\ Propagate(Raised("ValueError", "mapping"))
            /\ UNCHANGED <<ma, ra>>
    /\ UNCHANGED <<api, mg, log, given, heap, tmp_dir, pa, fc>>

\* Lines 485-487: Molecule._merge, which returns the merged molecule or
\* raises.
MergeUnderlying ==
    /\ At("merge", "_merge")
    /\ \/ /\ log' = Append(log, Event("_merge", "merge", 0, FALSE))
          /\ stack' = << >>
          /\ result' = Outcome("merged", "", "", << >>, << >>, << >>, << >>)
       \/ /\ log' = Append(log, Event("_merge", "merge", 0, TRUE))
          /\ Propagate(Outcome("raise", "raised by _merge", "", << >>, << >>, << >>, << >>))
    /\ UNCHANGED <<api, ma, ra, mg, given, heap, tmp_dir, pa, fc>>

\* The caller turns to its next call.  No function of the module keeps
\* state from one call to the next.
NextCall ==
    /\ Finished
    /\ api' = ""
    /\ ma' = MaIdle
    /\ ra' = RaIdle
    /\ mg' = MgIdle
    /\ log' = << >>
    /\ given' = NoArgs
    /\ result' = Running
    /\ heap' = HeapInit
    /\ tmp_dir' = "none"
    /\ UNCHANGED <<stack, pa, fc>>

Next ==
    \/ MatchAtomsCall
    \/ MaDerive
    \/ MaSearch
    \/ MaScore
    \/ RmsdAlignCall
    \/ RmsdAlignFit
    \/ MergeCall
    \/ MergeAlign
    \/ MergeUnderlying
    \/ NextCall

Spec == Init /\ [][Next]_vars

\* ====================================== BioSimSpace.Parameters: the calls
S_parameterise == <<"p", "a", "r", "a", "m", "e", "t", "e", "r", "i", "s", "e">>

PaCalled(fn, args, invoked, e) ==
    [pa EXCEPT !.fn = fn, !.args = args, !.invoked = invoked,
               !.protocol = e.protocol,
               !.process = IF e.started THEN "running" ELSE "none",
               !.result = e.outcome]

\* parameterise(molecule, forcefield, work_dir, property_map): lines 76-85,
\* and the body of the function it dispatches to.
ParameteriseCall ==
    /\ pa.fn = << >>
    /\ \E mol \in BOOLEAN, pm \in BOOLEAN :
         \/ pa' = PaCalled(S_parameterise,
                           [NoCall EXCEPT !.forcefield_is_str = FALSE,
                                          !.molecule = mol, !.property_map = pm],
                           << >>, Raises("TypeError"))
         \/ \E ff \in ForcefieldInputs :
              LET args == [NoCall EXCEPT !.forcefield = ff, !.molecule = mol,
                                         !.property_map = pm]
                  forcefield == NormaliseForcefield(ff)
              IN  IF ~InList(forcefield, pa.registry.forcefields_lower)
                  THEN pa' = PaCalled(S_parameterise, args, << >>,
                                      Effect(PaOutcome("raise", "ValueError",
                                                       forceFields(pa.registry)),
                                             None, FALSE))
                  ELSE LET f == DictGet(pa.registry.forcefield_dict, forcefield) IN
                       pa' = PaCalled(S_parameterise, args, <<f>>,
                                      Invoke(f, pa.env, args))
    /\ UNCHANGED <<alignVars, fc>>

\* ff99(...), ..., gaff2(...) called by the user.
OwnFunctionCall ==
    /\ pa.fn = << >>
    /\ \E name \in OwnFunctions, mol \in BOOLEAN, pm \in BOOLEAN, nc \in NetCharges :
         /\ name \notin TakesNetCharge => nc = <<"None", 0>>
         /\ LET args == [NoCall EXCEPT !.molecule = mol, !.property_map = pm,
                                       !.net_charge = nc]
            IN  pa' = PaCalled(name, args, <<Builtin(name)>>,
                               OwnFunction(name, pa.env, args))
    /\ UNCHANGED <<alignVars, fc>>

\* The background thread of the Process ends, with the parameterised
\* molecule or with an error.
ProcessEnds ==
    /\ pa.process = "running"
    /\ \E how \in {"finished", "failed"} : pa' = [pa EXCEPT !.process = how]
    /\ UNCHANGED <<alignVars, fc>>

\* The caller turns to its next call; the registry and the environment stay.
ParamNextCall ==
    /\ pa.fn # << >>
    /\ pa' = PaImported(pa.env, pa.found)
    /\ UNCHANGED <<alignVars, fc>>

ParamInit ==
    /\ api = ""
    /\ stack = << >>
    /\ ma = MaIdle
    /\ ra = RaIdle
    /\ mg = MgIdle
    /\ log = << >>
    /\ given = NoArgs
    /\ result = Running
    /\ heap = HeapInit
    /\ tmp_dir = "none"
    /\ fc = FcIdle
    /\ \E env \in Envs, found \in Found : pa = PaImported(env, found)

ParamNext ==
    \/ ParameteriseCall
    \/ OwnFunctionCall
    \/ ProcessEnds
    \/ ParamNextCall

ParamSpec == ParamInit /\ [][ParamNext]_vars

\* ------------------------------------------------------ IO: the actions
\* BSS.IO.saveMolecules(filebase, system, formats).
SaveMoleculesCall ==
    /\ \E filebase \in Filebases, system \in Systems, formats \in FormatLists :
         LET st == saveMolecules([cache |-> fc.cache, disk |-> fc.disk, reused |-> {}],
                                 filebase, system, formats)
         IN  fc' = [cache |-> st.cache, disk |-> st.disk,
                    last |-> [op |-> "saveMolecules", filebase |-> filebase,
                              system |-> system, formats |-> formats,
                              reused |-> st.reused]]
    /\ UNCHANGED <<alignVars, pa>>

\* os.remove(path), outside the cache's control.
RemoveFile ==
    /\ \E p \in Paths :
         /\ fc.disk[p] # Absent
         /\ fc' = [fc EXCEPT !.disk[p] = Absent, !.last = NoSave]
    /\ UNCHANGED <<alignVars, pa>>

\* open(path, "w") and nothing written: the file is there but empty.
TruncateFile ==
    /\ \E p \in Paths :
         /\ fc.disk[p] \notin {Absent, Truncated}
         /\ fc' = [fc EXCEPT !.disk[p] = Truncated, !.last = NoSave]
    /\ UNCHANGED <<alignVars, pa>>

CacheInit ==
    /\ api = ""
    /\ stack = << >>
    /\ ma = MaIdle
    /\ ra = RaIdle
    /\ mg = MgIdle
    /\ log = << >>
    /\ given = NoArgs
    /\ result = Running
    /\ heap = HeapInit
    /\ tmp_dir = "none"
    /\ pa = PaIdle
    /\ fc = FcIdle

CacheNext ==
    \/ SaveMoleculesCall
    \/ RemoveFile
    \/ TruncateFile

CacheSpec == CacheInit /\ [][CacheNext]_vars

\* ================================================================ claims
\* The events of the log that are calls of `op`.
Calls(op) == { i \in 1..Len(log) : log[i].op = op }
CallsBy(op, by) == { i \in Calls(op) : log[i].by = by }

\* _score_rmsd has run to its return: every kept mapping has its score.
Scored == Len(ma.mappings) > 0 /\ Len(ma.scores) = Len(ma.mappings)

\* matchAtoms, called by the user, has returned mappings.
MatchAtomsReturned ==
    /\ api = "matchAtoms"
    /\ Finished
    /\ result.kind \in {"mapping", "list", "pair"}

\* The two searches of the matchAtoms call in progress have answered and
\* no mapping has been scored yet.
Searched == Len(ma.searched) = 2

\* C1: for every non-empty list of candidate mappings and either value of
\* is_align, the scores _score_rmsd returns are in non-decreasing order, so
\* that the first returned mapping has the smallest score.
C1_ScoresNonDecreasing ==
    Scored =>
        /\ \A i \in 1..(Len(ma.scores) - 1) : ma.scores[i] <= ma.scores[i + 1]
        /\ \A i \in 1..Len(ma.scores) : ma.scores[1] <= ma.scores[i]

\* C1 witness: an aligned scoring of two candidates that came back in the
\* other order than the strict search answered them in.
C1_Witness ==
    /\ Scored
    /\ ma.is_align
    /\ ma.mappings = <<Rot(2, 1), Rot(2, 0)>>
    /\ ma.scores = <<0, 1>>

\* C2: when at least one candidate mapping is found, matchAtoms with
\* matches = 1 returns the single best-scored mapping, and with any other
\* accepted matches = N it returns (alone, or as the first member of the
\* pair when scores are asked for) the first min(N, number of candidates)
\* mappings of the best-first sorted candidate list, never more than N.
C2_ReturnedCount ==
    MatchAtomsReturned =>
        IF ma.matches = 1
        THEN /\ result.kind = "mapping"
             /\ result.mappings = <<ma.mappings[1]>>
             /\ \A i \in 1..Len(ma.scores) : ma.scores[1] <= ma.scores[i]
        ELSE /\ result.kind \in {"list", "pair"}
             /\ Len(result.mappings) = Min(ma.matches, Len(ma.mappings))
             /\ Len(result.mappings) <= ma.matches
             /\ \A i \in 1..Len(result.mappings) : result.mappings[i] = ma.mappings[i]

\* C2 witness: two matches asked for, one candidate found, a list of one
\* returned.
C2_Witness ==
    /\ MatchAtomsReturned
    /\ ma.matches = 2
    /\ Len(ma.mappings) = 1
    /\ result.kind = "list"
    /\ Len(result.mappings) = 1

\* C3: when both substructure searches return zero mappings, matchAtoms
\* returns None, whatever matches and return_scores are, and no mapping is
\* scored.
C3_NoMatchIsNone ==
    (Searched /\ ma.m0 = << >> /\ ma.m1 = << >>) =>
        /\ ma.scores = << >>
        /\ CallsBy("getRMSD", "_score_rmsd") = {}
        /\ CallsBy("align", "_score_rmsd") = {}
        /\ ~At("matchAtoms", "score")
        /\ api = "matchAtoms" => (Finished /\ result = Outcome("None", "", "", << >>, << >>, << >>, << >>))

\* C3 witness: None returned to a caller that asked for two matches with
\* their scores.
C3_Witness ==
    /\ api = "matchAtoms"
    /\ Finished
    /\ result.kind = "None"
    /\ ma.m0 = << >> /\ ma.m1 = << >> /\ Searched
    /\ ma.matches = 2
    /\ ma.return_scores

\* C4: the widened search's mappings are kept only when that search found
\* at least one and either the strict search found none or the widened
\* search's first mapping has strictly more atom pairs than the strict
\* search's first; in every other case the strict search's mappings are kept.
C4_WidenedOnlyIfRicher ==
    Searched =>
        IF /\ Len(ma.m1) >= 1
           /\ \/ Len(ma.m0) = 0
              \/ Cardinality(ma.m1[1]) > Cardinality(ma.m0[1])
        THEN ma.mappings = ma.m1
        ELSE ma.mappings = ma.m0

\* C4 witness: both searches found mappings, the widened one's first is the
\* richer, and the widened search's mappings are kept.
C4_Witness ==
    /\ Searched
    /\ Len(ma.m0) >= 1 /\ Len(ma.m1) >= 1
    /\ Cardinality(ma.m1[1]) > Cardinality(ma.m0[1])
    /\ ma.mappings = ma.m1
    /\ ma.mappings # ma.m0

\* The calls of findMCSmatches made after the last derivation began.
LastDerivation == CHOOSE i \in Calls("TemporaryDirectory") :
                      \A j \in Calls("TemporaryDirectory") : j <= i
SearchesSinceDerivation(w) ==
    { i \in Calls("findMCSmatches") : i > LastDerivation /\ log[i].w = w }

\* C5: when no prematch is supplied and a step of the prematch derivation
\* raises, matchAtoms does not raise: it goes on to the two searches, and
\* runs both with an empty prematch.
C5_DerivationFailureSwallowed ==
    ma.derived = "raised" =>
        \/ /\ At("matchAtoms", "search")
           /\ ma.prematch = {}
           /\ result.kind = ""
        \/ /\ Cardinality(SearchesSinceDerivation(6)) = 1
           /\ Cardinality(SearchesSinceDerivation(0)) = 1
           /\ Searched => ma.searched = <<{}, {}>>

\* C5 witness: the MCS computation raised, and both searches ran with an
\* empty prematch.
C5_Witness ==
    /\ ma.derived = "raised"
    /\ \E i \in Calls("FindMCS") : log[i].raised
    /\ Searched
    /\ ma.searched = <<{}, {}>>
    /\ Cardinality(Calls("findMCSmatches")) = 2

\* An argument the caller got wrong: one a check raised for, or an
\* allow_ring_breaking that is no bool.
InvalidArgument ==
    \/ result.kind = "raise" /\ result.arg # ""
    \/ api = "merge" /\ ~mg.allow_ring_breaking_is_bool

\* C6: in matchAtoms, rmsdAlign and merge, on any invalid argument no
\* external call is made: no temporary file, no search, no fit, no
\* underlying merge.
C6_NoExternalCallOnInvalidArgument ==
    InvalidArgument => log = << >>

\* The pairs of a caller's dictionary, as the claim sorts them.
NonIdxPair(p) == p[1][1] # "AtomIdx" \/ p[2][1] # "AtomIdx"
OutOfRangePair(p) ==
    \/ p[1][1] = "AtomIdx" /\ p[1][2] \notin 0..(nAtoms0 - 1)
    \/ p[2][1] = "AtomIdx" /\ p[2][2] \notin 0..(nAtoms1 - 1)
GoodPair(p) == ~NonIdxPair(p) /\ ~OutOfRangePair(p)

DictRejected ==
    /\ Finished
    /\ result.kind = "raise"
    /\ result.arg \in {"prematch", "mapping"}
    /\ given.dict # << >>
DictAccepted ==
    /\ given.dict # << >>
    /\ ~(result.kind = "raise" /\ result.arg \in {"prematch", "mapping"})

\* C7 as stated: a caller's prematch or mapping is accepted only if every
\* key and value is an in-range atom index; any pair with an out-of-range
\* key or value raises ValueError, and any key or value that is no AtomIdx
\* raises TypeError.
C7_AnyBadPairDecidesError ==
    /\ DictAccepted => \A i \in 1..Len(given.dict) : GoodPair(given.dict[i])
    /\ (\E i \in 1..Len(given.dict) : OutOfRangePair(given.dict[i]))
           => (result.kind = "raise" /\ result.exc = "ValueError")
    /\ (\E i \in 1..Len(given.dict) : NonIdxPair(given.dict[i]))
           => (result.kind = "raise" /\ result.exc = "TypeError")

\* C7 amended: a caller's prematch or mapping is accepted only if every key
\* and value is an in-range atom index; otherwise the call raises for the
\* first offending pair in iteration order: TypeError when its key or its
\* value is no AtomIdx, ValueError otherwise.
C7_FirstBadPairDecidesError ==
    /\ DictAccepted => \A i \in 1..Len(given.dict) : GoodPair(given.dict[i])
    /\ DictRejected =>
          \E i \in 1..Len(given.dict) :
             /\ ~GoodPair(given.dict[i])
             /\ \A j \in 1..(i - 1) : GoodPair(given.dict[j])
             /\ result.exc = IF NonIdxPair(given.dict[i]) THEN "TypeError" ELSE "ValueError"

\* C7 witness: rmsdAlign given a mapping whose first pair is out of range
\* and whose second pair holds an object that is no AtomIdx: ValueError.
C7_Witness ==
    /\ api = "rmsdAlign"
    /\ DictRejected
    /\ Len(given.dict) = 2
    /\ OutOfRangePair(given.dict[1]) /\ ~NonIdxPair(given.dict[1])
    /\ NonIdxPair(given.dict[2])
    /\ result.exc = "ValueError"

\* A scoring-function name with its spaces removed and in upper case.
Capital ==
    [c \in {"r", "m", "s", "d", "a", "l", "i", "g", "n"} |->
        CASE c = "r" -> "R" [] c = "m" -> "M" [] c = "s" -> "S" [] c = "d" -> "D"
          [] c = "a" -> "A" [] c = "l" -> "L" [] c = "i" -> "I" [] c = "g" -> "G"
          [] c = "n" -> "N"]
RECURSIVE SpacelessCapitals(_)
SpacelessCapitals(s) ==
    IF s = << >> THEN << >>
    ELSE IF Head(s) = " " THEN SpacelessCapitals(Tail(s))
    ELSE <<IF Head(s) \in DOMAIN Capital THEN Capital[Head(s)] ELSE Head(s)>>
         \o SpacelessCapitals(Tail(s))

NameIsRmsd(s) == SpacelessCapitals(s) = <<"R", "M", "S", "D">>
NameIsRmsdAlign(s) == SpacelessCapitals(s) = <<"R", "M", "S", "D", "A", "L", "I", "G", "N">>

\* C8: matchAtoms accepts a scoring-function name exactly when, spaces
\* removed and upper-cased, it is "RMSD" or "RMSDALIGN"; any other string
\* raises ValueError listing the two names; and a candidate is aligned
\* before it is scored exactly when the name is "RMSDALIGN".
C8_ScoringFunctionNames ==
    api = "matchAtoms" =>
        /\ (given.scoring_function # << >> /\ result.arg # "scoring_function") =>
              /\ NameIsRmsd(given.scoring_function) \/ NameIsRmsdAlign(given.scoring_function)
              /\ ma.is_align <=> NameIsRmsdAlign(given.scoring_function)
        /\ (result.arg = "scoring_function" /\ result.exc = "ValueError") =>
              /\ ~NameIsRmsd(given.scoring_function)
              /\ ~NameIsRmsdAlign(given.scoring_function)
              /\ Finished
              /\ result.kind = "raise"
              /\ result.lists = << <<"R", "M", "S", "D">>,
                                   <<"R", "M", "S", "D", "A", "L", "I", "G", "N">> >>
        /\ \A i \in Calls("getRMSD") :
              ma.is_align <=> (i > 1 /\ log[i - 1].op = "align")
        /\ Calls("align") # {} => ma.is_align

\* C8 witness: "rmsdALIGN" accepted, the candidates aligned and scored, a
\* mapping returned.
C8_Witness ==
    /\ api = "matchAtoms"
    /\ given.scoring_function = <<"r", "m", "s", "d", "A", "L", "I", "G", "N">>
    /\ ma.is_align
    /\ Calls("align") # {}
    /\ Calls("getRMSD") # {}
    /\ result.kind = "mapping"

\* The fit of a candidate raised during scoring.
ScoreFitFailed == \E i \in CallsBy("align", "_score_rmsd") : log[i].raised

\* C9: in align-then-score mode, when the fit fails for a candidate, the
\* scoring and the enclosing call end with the alignment error naming that
\* mapping; no mappings and no scores are returned, those of candidates
\* scored before the failing one included.
C9_FitFailureAbortsScoring ==
    ScoreFitFailed =>
        /\ Finished
        /\ ma.is_align
        /\ result.kind = "raise"
        /\ result.exc = "AlignmentError"
        /\ result.names = <<ma.mappings[Len(ma.scores) + 1]>>
        /\ result.mappings = << >>
        /\ result.scores = << >>

\* C9 witness: the second candidate's fit raised after the first candidate
\* had been scored.
C9_Witness ==
    /\ api = "matchAtoms"
    /\ ScoreFitFailed
    /\ Len(ma.scores) = 1
    /\ Len(ma.mappings) = 2
    /\ result.names = <<ma.mappings[2]>>

\* The fit of rmsdAlign raised.
AlignFitFailed == \E i \in CallsBy("align", "rmsdAlign") : log[i].raised

\* C10: once its arguments passed validation, rmsdAlign returns an aligned
\* molecule or raises the alignment error; a fit that fails, for a supplied
\* or an auto-derived mapping, surfaces as that error and as no other.
C10_FitFailureIsAlignmentError ==
    /\ AlignFitFailed =>
          /\ Finished
          /\ result.kind = "raise"
          /\ result.exc = "AlignmentError"
    /\ (api = "rmsdAlign" /\ Finished /\ result.arg = "") =>
          \/ result.kind = "molecule"
          \/ result.kind = "raise" /\ result.exc = "AlignmentError"

\* C10 witness: rmsdAlign without a mapping, matchAtoms found one, the fit
\* on it raised.
C10_Witness ==
    /\ api = "rmsdAlign"
    /\ Calls("findMCSmatches") # {}
    /\ ra.mapping # None
    /\ AlignFitFailed
    /\ result.exc = "AlignmentError"

\* The mapping a caller's dictionary stands for.
GivenMapping == { <<given.dict[i][1][2], given.dict[i][2][2]>> : i \in 1..Len(given.dict) }

\* The events of the log made by matchAtoms and its scoring.
MatchingEvents == { i \in 1..Len(log) : log[i].by \in {"matchAtoms", "_score_rmsd"} }

\* C15: merge with a mapping validates it and invokes the underlying merge on
\* the unaligned molecule0 with that mapping, matching and aligning nothing;
\* merge without a mapping runs matchAtoms first, then rmsdAlign with the
\* mapping that returned, and only then the underlying merge, on the aligned
\* molecule and with that same mapping.
C15_MergeOrder ==
    api = "merge" =>
        /\ "mapping" \in given.passed =>
              /\ \A i \in 1..Len(log) : log[i].op = "_merge"
              /\ (Finished /\ result.arg = "") => Calls("_merge") # {}
              /\ Calls("_merge") # {} =>
                    /\ Len(log) = 1
                    /\ mg.mapping = <<GivenMapping>>
                    /\ ~mg.aligned
                    /\ heap.returned = 0
        /\ "mapping" \notin given.passed =>
              /\ \A j \in CallsBy("align", "rmsdAlign") :
                    /\ Calls("findMCSmatches") # {}
                    /\ \A k \in MatchingEvents : k < j
              /\ \A i \in Calls("_merge") :
                    /\ i = Len(log)
                    /\ i > 1
                    /\ log[i - 1] = [op |-> "align", by |-> "rmsdAlign", w |-> 0, raised |-> FALSE]
                    /\ mg.aligned
                    /\ heap.returned > 2
                    /\ heap.coords[heap.returned] = "aligned"
                    /\ mg.mapping # << >> =>
                          /\ ra.mapping = mg.mapping
                          /\ mg.mapping = <<ma.mappings[1]>>
              /\ (At("rmsdAlign", "align") /\ mg.mapping # << >>) => ra.mapping = mg.mapping

\* C15 witness: merge without a mapping ran matchAtoms, aligned on the
\* mapping it returned and merged with it.
C15_Witness ==
    /\ api = "merge"
    /\ "mapping" \notin given.passed
    /\ result.kind = "merged"
    /\ mg.mapping # << >>
    /\ Calls("getRMSD") # {}
    /\ CallsBy("align", "rmsdAlign") # {}
    /\ Calls("_merge") # {}

C17_PairWheneverScoresAsked ==
    (MatchAtomsReturned /\ ma.return_scores) =>
        /\ result.kind = "pair"
        /\ Len(result.mappings) = Len(result.scores)
        /\ \A i \in 1..Len(result.scores) :
              /\ result.mappings[i] = ma.mappings[i]
              /\ result.scores[i] = ma.scores[i]

\* No call of matchAtoms is in progress.
MatchAtomsOver == \A i \in 1..Len(stack) : stack[i].fn # "matchAtoms"

\* C19: the temporary directory matchAtoms created for the prematch
\* derivation no longer exists once matchAtoms has finished, on every exit
\* path: a mapping returned, None returned, a derivation failure swallowed,
\* an alignment error propagated.
C19_TemporaryDirectoryRemoved ==
    (tmp_dir # "none" /\ MatchAtomsOver) => tmp_dir = "removed"

\* A call of gaff or gaff2 that reached its net_charge lines.
NetChargeRead ==
    /\ pa.fn \in {<<"g", "a", "f", "f">>, <<"g", "a", "f", "f", "2">>}
    /\ pa.env.amber_home
    /\ pa.args.molecule

\* net_charge as the claim sorts it: an integer, an integer-valued float or
\* Charge; a number with a fractional part; a value that is no number.
IntegerValued(x) == x[1] = "int" \/ (x[1] \in {"float", "Charge"} /\ x[2] % 2 = 0)
IntegerOf(x) == IF x[1] = "int" THEN x[2] ELSE x[2] \div 2
Fractional(x) == x[1] \in {"float", "Charge", "Decimal"} /\ x[2] % 2 = 1
NonNumeric(x) == x[1] \in {"str", "object"}

NothingStarted == pa.protocol = << >> /\ pa.process = "none"

\* C11: for gaff and gaff2 alike, an integer, an integer-valued float or a
\* charge quantity of integer-valued magnitude yields that integer in the
\* protocol; a fractional value raises ValueError; a non-numeric value
\* raises TypeError; on either error no protocol is built and no process is
\* started.
C11_NetChargeCoercion ==
    NetChargeRead =>
        /\ (IntegerValued(pa.args.net_charge) /\ pa.args.property_map) =>
              /\ pa.result.kind = "handle"
              /\ pa.protocol # << >>
              /\ pa.protocol[1].net_charge = <<IntegerOf(pa.args.net_charge)>>
        /\ Fractional(pa.args.net_charge) =>
              /\ pa.result.kind = "raise"
              /\ pa.result.exc = "ValueError"
              /\ NothingStarted
        /\ NonNumeric(pa.args.net_charge) =>
              /\ pa.result.kind = "raise"
              /\ pa.result.exc = "TypeError"
              /\ NothingStarted

\* A force-field name with its spaces removed and in lower case.
Small ==
    [c \in {"S", "B", "F", "G", "A", "O", "P"} |->
        CASE c = "S" -> "s" [] c = "B" -> "b" [] c = "F" -> "f" [] c = "G" -> "g"
          [] c = "A" -> "a" [] c = "O" -> "o" [] c = "P" -> "p"]
RECURSIVE SpacelessSmall(_)
SpacelessSmall(s) ==
    IF s = << >> THEN << >>
    ELSE IF Head(s) = " " THEN SpacelessSmall(Tail(s))
    ELSE <<IF Head(s) \in DOMAIN Small THEN Small[Head(s)] ELSE Head(s)>>
         \o SpacelessSmall(Tail(s))

\* parameterise was called with a string for a name.
ParameteriseByName == pa.fn = S_parameterise /\ pa.args.forcefield_is_str

\* The registered names whose normalised form is that of the name passed.
NamedForceFields ==
    { i \in 1..Len(pa.registry.forcefields) :
        SpacelessSmall(pa.registry.forcefields[i]) = SpacelessSmall(pa.args.forcefield) }

\* The function that belongs to a registered name.
FunctionOf(name) ==
    IF name \in OwnFunctions
    THEN [kind |-> "builtin", name |-> name]
    ELSE [kind |-> "openff",
          name |-> [i \in 1..Len(name) |-> IF name[i] \in {"-", "."} THEN "_" ELSE name[i]]]

\* C12: parameterise dispatches by name, case-insensitively and ignoring
\* spaces: names equal after removing spaces and lower-casing reach the same
\* registered function; a name whose normalised form is not registered
\* raises ValueError listing all registered names, and no parameterisation
\* function is invoked.
C12_DispatchByNormalisedName ==
    ParameteriseByName =>
        /\ NamedForceFields # {} =>
              /\ Len(pa.invoked) = 1
              /\ \A i \in NamedForceFields :
                    pa.invoked[1] = FunctionOf(pa.registry.forcefields[i])
        /\ NamedForceFields = {} =>
              /\ pa.result.kind = "raise"
              /\ pa.result.exc = "ValueError"
              /\ pa.result.lists = pa.registry.forcefields
              /\ \A name \in OwnFunctions :
                    \E i \in 1..Len(pa.result.lists) : pa.result.lists[i] = name
              /\ \A j \in 1..Len(pa.registry.open_forcefields) :
                    \E i \in 1..Len(pa.result.lists) :
                        pa.result.lists[i] = pa.registry.open_forcefields[j]
              /\ pa.invoked = << >>
              /\ NothingStarted

\* C12 witness: "FF99SB" reached ff99SB.
C12_Witness ==
    /\ ParameteriseByName
    /\ pa.args.forcefield = <<"F", "F", "9", "9", "S", "B">>
    /\ pa.invoked = <<[kind |-> "builtin", name |-> <<"f", "f", "9", "9", "S", "B">>]>>

\* Every tool-chain is installed.
AllSoftware == pa.env.amber_home /\ pa.env.gmx_exe /\ pa.env.gromacs_path

\* C13: for every registered force-field name, the module's own and those
\* discovered in the dataset, parameterise with valid arguments and the
\* tool-chain present submits a background task for that force field and
\* returns its handle at once, without waiting for the task to finish.
C13_RegisteredNameStartsTask ==
    (/\ ParameteriseByName
     /\ NamedForceFields # {}
     /\ pa.args.molecule
     /\ pa.args.property_map
     /\ AllSoftware) =>
        /\ pa.result.kind = "handle"
        /\ pa.protocol # << >>
        /\ pa.process # "none"

\* The function called, directly or through parameterise.
OwnInvoked == { name \in OwnFunctions : pa.invoked = <<[kind |-> "builtin", name |-> name]>> }

\* The software a function needs is not installed: AMBER or GROMACS for
\* ff99, ff99SB, ff99SBildn and ff03, AMBER for ff14SB, gaff and gaff2.
SoftwareAbsent(name) ==
    IF name \in {<<"f", "f", "1", "4", "S", "B">>, <<"g", "a", "f", "f">>, <<"g", "a", "f", "f", "2">>}
    THEN ~pa.env.amber_home
    ELSE ~pa.env.amber_home /\ ~(pa.env.gmx_exe /\ pa.env.gromacs_path)

\* C14: each of the module's parameterisation functions raises the
\* missing-software error when its tool-chain is absent, whatever its
\* arguments, and creates no background process; with the tool-chain
\* present it does not raise that error.
C14_MissingSoftwareFirst ==
    \A name \in OwnInvoked :
        /\ SoftwareAbsent(name) =>
              /\ pa.result.kind = "raise"
              /\ pa.result.exc = "MissingSoftwareError"
              /\ NothingStarted
        /\ ~SoftwareAbsent(name) => pa.result.exc # "MissingSoftwareError"

\* C14 witness: gaff without AMBER but with GROMACS, given no molecule, a
\* fractional net charge and no dict.
C14_Witness ==
    /\ pa.fn = <<"g", "a", "f", "f">>
    /\ ~pa.env.amber_home /\ pa.env.gmx_exe /\ pa.env.gromacs_path
    /\ ~pa.args.molecule
    /\ ~pa.args.property_map
    /\ pa.args.net_charge = <<"float", 5>>
    /\ pa.result.exc = "MissingSoftwareError"

\* ---- C18
\* The keys the cache holds an entry for.
CachedKeys(cache) == { e.key : e \in cache }

\* The entries the cache holds for a key.
EntriesOf(cache, key) == { e \in cache : e.key = key }

\* Before the step, the cache holds for the key a file that is still on
\* disk and whose content still has the recorded checksum.
CachedFileStillGood(key) ==
    \E e \in fc.cache :
        /\ e.key = key
        /\ fc.disk[e.file] # Absent
        /\ Md5(fc.disk[e.file]) = e.md5

C18_OneEntryPerKey ==
    \A e1 \in fc.cache : \A e2 \in fc.cache : e1.key = e2.key => e1 = e2

\* What a step that is a saveMolecules call does, format by format.
C18_SaveStep ==
    LET call == fc'.last
    IN  call.op = "saveMolecules" =>
          /\ \A i \in 1..Len(call.formats) :
               LET format == call.formats[i]
                   key    == Key(call.system, format)
                   out    == Path(call.filebase, format)
                   text   == Render(call.system, format)
               IN  /\ (format \in call.reused) <=> CachedFileStillGood(key)
                   /\ format \in call.reused =>
                        /\ EntriesOf(fc'.cache, key) = EntriesOf(fc.cache, key)
                        /\ \E e \in EntriesOf(fc.cache, key) :
                             fc'.disk[out] = fc.disk[e.file]
                   /\ format \notin call.reused =>
                        EntriesOf(fc'.cache, key) = {Entry(key, out, Md5(text))}
                   /\ fc'.disk[out] = text
          /\ \A e \in fc.cache :
               (\A i \in 1..Len(call.formats) :
                    e.key # Key(call.system, call.formats[i])) => e \in fc'.cache
          /\ CachedKeys(fc'.cache) =
               CachedKeys(fc.cache) \cup
               { Key(call.system, call.formats[i]) : i \in 1..Len(call.formats) }

C18_NeverEvicted == CachedKeys(fc.cache) \subseteq CachedKeys(fc'.cache)

Orders(n) == { p \in [1..n -> 1..n] : \A i \in 1..n : \A j \in 1..n : p[i] = p[j] => i = j }

\* The step in which _score_rmsd scores its last candidate and returns.
ScoreRmsdReturns ==
    /\ At("matchAtoms", "score")
    /\ Len(ma.scores) + 1 = Len(ma.mappings)
    /\ Len(ma'.scores) = Len(ma.mappings)

\* p is the stable ascending order of the scores: smaller scores first,
\* equal scores in input order.
StableAscending(p, scores) ==
    \A x \in 1..Len(scores) : \A y \in 1..Len(scores) :
        x < y => \/ scores[p[x]] < scores[p[y]]
                 \/ scores[p[x]] = scores[p[y]] /\ p[x] < p[y]

\* C21: the mappings and the scores _score_rmsd returns are the input
\* candidates and the scores computed for them, both put in one and the
\* same order: the lengths are those of the input, every input mapping
\* appears once, each score stays with its mapping, and candidates with
\* equal scores keep their input order.
C21_OneStablePermutation ==
    [][ScoreRmsdReturns =>
         \E s \in Scores :
            LET computed == Append(ma.scores, s)
                n == Len(ma.mappings)
            IN  /\ Len(ma'.mappings) = n
                /\ Len(ma'.scores) = n
                /\ \E p \in Orders(n) :
                     /\ StableAscending(p, computed)
                     /\ \A x \in 1..n : ma'.mappings[x] = ma.mappings[p[x]]
                     /\ \A x \in 1..n : ma'.scores[x] = computed[p[x]]]_vars

\* C21 witness: two candidates were scored equal and came back in the order
\* the search answered them in.
C21_Witness ==
    /\ Scored
    /\ ~ma.is_align
    /\ ma.scores = <<1, 1>>
    /\ ma.mappings = Candidates(2, 2, 1)

\* ---- C22
\* The two searches of the matchAtoms call in progress have just been run.
BothSearched == Len(ma.searches) = 2

\* What a search is given besides the match width.
ButWidth(a) ==
    [prematch |-> a.prematch, timeout |-> a.timeout, match_light |-> a.match_light,
     property_map0 |-> a.property_map0, property_map1 |-> a.property_map1]

\* The prematch the caller of matchAtoms passed.
CallerPrematch == AsMapping(given.dict)

\* C22: within one matchAtoms call the strict and the widened search are
\* run one after the other with the same prematch, time budget, light-atom
\* flag and property maps, and differ only in the match width; when the
\* caller passes a non-empty prematch no derivation is attempted and both
\* searches are given exactly that prematch.
C22_SearchesDifferOnlyInWidth ==
    BothSearched =>
        /\ Calls("findMCSmatches") # {}
        /\ \A i \in Calls("findMCSmatches") :
             \/ /\ log[i].w = ma.searches[1].width
                /\ i + 1 \in Calls("findMCSmatches")
                /\ log[i + 1].w = ma.searches[2].width
             \/ /\ log[i].w = ma.searches[2].width
                /\ i - 1 \in Calls("findMCSmatches")
                /\ log[i - 1].w = ma.searches[1].width
        /\ ButWidth(ma.searches[1]) = ButWidth(ma.searches[2])
        /\ ma.searches[1].width = 6
        /\ ma.searches[2].width = 0
        /\ (api = "matchAtoms" /\ CallerPrematch # {}) =>
             /\ ma.derived = "no"
             /\ \A i \in 1..Len(log) : log[i].op = "findMCSmatches"
             /\ ma.searches[1].prematch = CallerPrematch
             /\ ma.searches[2].prematch = CallerPrematch

\* C22 witness: the caller passed a prematch of two pairs and both searches
\* were given it.
C22_Witness ==
    /\ BothSearched
    /\ api = "matchAtoms"
    /\ Cardinality(CallerPrematch) = 2
    /\ ma.searches[2].prematch = CallerPrematch
    /\ ma.searches[2].width = 0

\* ---- C23
\* The names of a list, and the keys of the dispatch table.
NamesIn(list) == { list[i] : i \in 1..Len(list) }
DispatchKeys == { e[1] : e \in pa.registry.forcefield_dict }

\* parameterise was called with a name forceFields() returns.
ParameteriseByRegisteredName ==
    /\ ParameteriseByName
    /\ pa.args.forcefield \in NamesIn(forceFields(pa.registry))

MergeFoundNoMatch ==
    /\ api = "merge"
    /\ "mapping" \notin given.passed
    /\ mg.mapping = None
    /\ Cardinality(Calls("findMCSmatches")) = 4

\* C24: merge never invokes the underlying merge with an absent mapping:
\* when the mapping is omitted and matchAtoms finds no match, merge ends
\* with the alignment error and the underlying merge is not called.
C24_NoUnderlyingMergeWithoutMapping ==
    /\ api = "merge" /\ Calls("_merge") # {} => mg.mapping # None
    /\ MergeFoundNoMatch /\ Finished =>
         /\ result.kind = "raise"
         /\ result.exc = "AlignmentError"
         /\ Calls("_merge") = {}

====
